---- MODULE Spec2Model ----
(***************************************************************************)
(* A model of the toy-language front end in my-lang.cpp: the character     *)
(* lexer (gettok), the recursive-descent / precedence-climbing parser, the *)
(* lowering of the AST into the LLVM module (the codegen methods) and the  *)
(* top-level driver (MainLoop and its handlers).                           *)
(*                                                                         *)
(* my-lang.cpp holds two builds of the front end: the build with lowering  *)
(* (lines 1-597) and a parser-only build (lines 607-1007).  The parser     *)
(* operators take the build as their first parameter, because the two      *)
(* copies of ParseBinOpRHS differ.                                         *)
(***************************************************************************)
EXTENDS Integers, Sequences, FiniteSets, TLC

VARIABLES
    input,          \* the character stream behind getchar()
    pos,            \* number of characters getchar() has handed out
    LastChar,       \* gettok's static carry-over character
    IdentifierStr,  \* filled in if tok_identifier
    NumVal,         \* filled in if tok_number
    CurTok,         \* the parser's lookahead token
    calls,          \* history: number of gettok() calls made so far
    errs,           \* the diagnostic stream (stderr), one entry per line
    TheModule,      \* std::unique_ptr<Module> TheModule
    TheJIT,         \* the modules handed to TheJIT->addModule
    NamedValues,    \* std::map<std::string, Value *> NamedValues
    nextFn,         \* identity of the next llvm::Function object created
    backend,        \* history: the requests the driver made of the JIT
    anonNames,      \* history: prototype name of every anonymous unit built
    defs,           \* history: the functions the session has given a body
    last,           \* history: what the last handled top-level unit did
    pc,             \* where main() is
    exprOps,        \* parser harness: the operators of the generated input
    exprOpnds,      \* parser harness: the primaries of the generated input
    res,            \* parser harness: what each build's ParseExpression returned
    callPrefix,     \* parser harness: the text before a generated call
    callArgs,       \* parser harness: the tokens after the '(' of the call
    lex             \* lexer harness: the stream a comment was put in, and
                    \* the tokens gettok has returned

vars == <<input, pos, LastChar, IdentifierStr, NumVal, CurTok, calls, errs,
          TheModule, TheJIT, NamedValues, nextFn, backend, anonNames, defs,
          last, pc, exprOps, exprOpnds, res, callPrefix, callArgs, lex>>

-----------------------------------------------------------------------------
(* Bounds of the model *)

\* longest run of operators in a generated expression primary (OP primary)*
MaxOps == 3
\* largest number of text chunks a generated session input is made of
MaxChunks == 3
\* largest number of tokens after the '(' of a generated call
MaxArgTokens == 4
\* largest number of pieces a generated character stream is made of
MaxLexPieces == 3

-----------------------------------------------------------------------------
(* Characters and tokens.  A character is its ordinal, as in the source,   *)
(* so that a single-character token is the character itself.               *)

EOF == -1
tok_eof == -1
tok_def == -2
tok_extern == -3
tok_identifier == -4
tok_number == -5

Ord(c) ==
    CASE c = "\n" -> 10 [] c = " " -> 32 [] c = "#" -> 35 [] c = "(" -> 40
      [] c = ")" -> 41 [] c = "*" -> 42 [] c = "+" -> 43 [] c = "," -> 44
      [] c = "-" -> 45 [] c = "." -> 46 [] c = "/" -> 47 [] c = "0" -> 48
      [] c = "1" -> 49 [] c = "2" -> 50 [] c = "3" -> 51 [] c = "4" -> 52
      [] c = "5" -> 53 [] c = "6" -> 54 [] c = "7" -> 55 [] c = "8" -> 56
      [] c = "9" -> 57 [] c = ";" -> 59 [] c = "<" -> 60 [] c = "=" -> 61
      [] c = ">" -> 62 [] c = "a" -> 97 [] c = "b" -> 98 [] c = "c" -> 99
      [] c = "d" -> 100 [] c = "e" -> 101 [] c = "f" -> 102 [] c = "g" -> 103
      [] c = "n" -> 110 [] c = "r" -> 114 [] c = "t" -> 116 [] c = "x" -> 120
      [] c = "y" -> 121

\* the text of a sequence of one-character strings
Str(s) == [i \in 1..Len(s) |-> Ord(s[i])]

isspace(c) == c \in {9, 10, 11, 12, 13, 32}
isdigit(c) == c \in 48..57
isalpha(c) == c \in (65..90) \cup (97..122)
isalnum(c) == isalpha(c) \/ isdigit(c)

-----------------------------------------------------------------------------
(* strtod on a run of [0-9.]: the longest prefix digits [. digits] is      *)
(* converted, a run with no digit converts to 0.  The value is kept as a   *)
(* decimal m / 10^e with no trailing zero in the fraction.                 *)

RECURSIVE DigitRun(_, _)
DigitRun(s, i) ==
    IF i <= Len(s) /\ isdigit(s[i]) THEN DigitRun(s, i + 1) ELSE i

RECURSIVE DecimalValue(_, _, _)
DecimalValue(s, i, j) ==
    IF i > j THEN 0 ELSE DecimalValue(s, i, j - 1) * 10 + (s[j] - 48)

RECURSIVE Normalise(_, _)
Normalise(m, e) ==
    IF e > 0 /\ m % 10 = 0 THEN Normalise(m \div 10, e - 1) ELSE [m |-> m, e |-> e]

strtod(NumStr) ==
    LET iend == DigitRun(NumStr, 1)
        hasDot == iend <= Len(NumStr) /\ NumStr[iend] = Ord(".")
        fend == IF hasDot THEN DigitRun(NumStr, iend + 1) ELSE iend
        digits == SubSeq(NumStr, 1, iend - 1) \o
                  (IF hasDot THEN SubSeq(NumStr, iend + 1, fend - 1) ELSE <<>>)
    IN  IF digits = <<>> THEN [m |-> 0, e |-> 0]
        ELSE Normalise(DecimalValue(digits, 1, Len(digits)),
                       IF hasDot THEN fend - 1 - iend ELSE 0)

-----------------------------------------------------------------------------
(* The lexer.  The globals the lexer and the parser share are threaded     *)
(* through the operators as one record G.                                  *)

Globals ==
    [pos |-> pos, LastChar |-> LastChar, IdentifierStr |-> IdentifierStr,
     NumVal |-> NumVal, CurTok |-> CurTok, calls |-> calls, errs |-> errs,
     stdin |-> input]

\* LastChar = getchar()
getchar(G) ==
    IF G.pos < Len(G.stdin)
    THEN [G EXCEPT !.LastChar = G.stdin[G.pos + 1], !.pos = G.pos + 1]
    ELSE [G EXCEPT !.LastChar = EOF]

RECURSIVE SkipSpace(_)
SkipSpace(G) == IF isspace(G.LastChar) THEN SkipSpace(getchar(G)) ELSE G

RECURSIVE ScanIdentifier(_)
ScanIdentifier(G) ==
    LET G1 == getchar(G)
    IN  IF isalnum(G1.LastChar)
        THEN ScanIdentifier([G1 EXCEPT !.IdentifierStr = @ \o <<G1.LastChar>>])
        ELSE G1

RECURSIVE ScanNumber(_, _)
ScanNumber(G, NumStr) ==
    LET G1 == getchar(G)
        N1 == NumStr \o <<G.LastChar>>
    IN  IF isdigit(G1.LastChar) \/ G1.LastChar = Ord(".")
        THEN ScanNumber(G1, N1)
        ELSE [G1 EXCEPT !.NumVal = strtod(N1)]

\* a comment skip that drops the '#' alone
SkipComment_OneChar(G) == getchar(G)

RECURSIVE SkipComment(_)
SkipComment(G) ==
    LET G1 == getchar(G)
    IN  IF G1.LastChar # EOF /\ G1.LastChar # 10 /\ G1.LastChar # 13
        THEN SkipComment(G1)
        ELSE G1

\* the tail of gettok after the comment test
LexChar(G) ==
    IF G.LastChar = EOF THEN [tok |-> tok_eof, G |-> G]
    ELSE [tok |-> G.LastChar, G |-> getchar(G)]

RECURSIVE gettok(_)
gettok(G0) ==
    LET G == SkipSpace(G0)
    IN  IF isalpha(G.LastChar) THEN
            LET G1 == ScanIdentifier([G EXCEPT !.IdentifierStr = <<G.LastChar>>])
            IN  [tok |-> IF G1.IdentifierStr = Str(<<"d", "e", "f">>)
                            THEN tok_def
                         ELSE IF G1.IdentifierStr =
                                 Str(<<"e", "x", "t", "e", "r", "n">>)
                            THEN tok_extern
                         ELSE tok_identifier,
                 G |-> G1]
        ELSE IF isdigit(G.LastChar) \/ G.LastChar = Ord(".") THEN
            [tok |-> tok_number, G |-> ScanNumber(G, <<>>)]
        ELSE IF G.LastChar = Ord("#") THEN
            LET G1 == SkipComment(G)
            IN  IF G1.LastChar # EOF THEN gettok(G1) ELSE LexChar(G1)
        ELSE LexChar(G)

\* the value v under the name the body gives it: a local variable of the source
Bind(v, Body(_)) == Body(v)

getNextToken(G) ==
    Bind(gettok(G), LAMBDA r : [r.G EXCEPT !.CurTok = r.tok, !.calls = @ + 1])

LogError(G, Str_) == [G EXCEPT !.errs = Append(@, Str_)]

-----------------------------------------------------------------------------
(* The AST.  A parse function returns [ok, ast, G]: ok is FALSE for the    *)
(* null pointer, and G is the globals as the call leaves them.             *)

NumberExprAST(Val) == [kind |-> "Number", Val |-> Val]
VariableExprAST(Name) == [kind |-> "Variable", Name |-> Name]
BinaryExprAST(Op, LHS, RHS) == [kind |-> "Binary", Op |-> Op, LHS |-> LHS, RHS |-> RHS]
CallExprAST(Callee, Args) == [kind |-> "Call", Callee |-> Callee, Args |-> Args]
PrototypeAST(name, Args) == [Name |-> name, Args |-> Args]
FunctionAST(Proto, Body) == [Proto |-> Proto, Body |-> Body]

NoAST == [kind |-> "null"]
Parsed(ast, G) == [ok |-> TRUE, ast |-> ast, G |-> G]
Failed(G) == [ok |-> FALSE, ast |-> NoAST, G |-> G]

GetTokPrecedence(G) ==
    CASE G.CurTok \in {Ord("<"), Ord(">")} -> 10
      [] G.CurTok \in {Ord("+"), Ord("-")} -> 20
      [] G.CurTok \in {Ord("*"), Ord("/")} -> 40
      [] OTHER -> -1

RECURSIVE ParseExpression(_, _)
RECURSIVE ParsePrimary(_, _)
RECURSIVE ParseParenExpr(_, _)
RECURSIVE ParseIdentifierOrCallExpr(_, _)
RECURSIVE ParseCallArgs(_, _, _, _)
RECURSIVE ParseBinOpRHS(_, _, _)
RECURSIVE ParseBinOpRHS_ParserOnly(_, _, _)

ParseNumberExpr(b, G) == Parsed(NumberExprAST(G.NumVal), getNextToken(G))

ParseParenExpr(b, G) ==
    Bind(ParseExpression(b, getNextToken(G)), LAMBDA V :
        IF ~V.ok THEN V
        ELSE IF V.G.CurTok = Ord(")") THEN Parsed(V.ast, getNextToken(V.G))
        ELSE Failed(LogError(V.G, "Expecting ')'")))

\* an argument loop that returns the arguments read so far when the token
\* after an argument is neither ')' nor ','
ParseCallArgs_Partial(b, IdName, Args, G) ==
    Bind(ParseExpression(b, G), LAMBDA Arg :
        IF ~Arg.ok THEN Failed(LogError(Arg.G, "Argument is null"))
        ELSE IF Arg.G.CurTok = Ord(")")
            THEN Parsed(CallExprAST(IdName, Append(Args, Arg.ast)),
                        getNextToken(Arg.G))
        ELSE IF Arg.G.CurTok = Ord(",")
            THEN ParseCallArgs(b, IdName, Append(Args, Arg.ast),
                               getNextToken(Arg.G))
        ELSE Parsed(CallExprAST(IdName, Append(Args, Arg.ast)), Arg.G))

\* the while (true) loop that constructs the argument list
ParseCallArgs(b, IdName, Args, G) ==
    Bind(ParseExpression(b, G), LAMBDA Arg :
        IF ~Arg.ok THEN Failed(LogError(Arg.G, "Argument is null"))
        ELSE IF Arg.G.CurTok = Ord(")")
            THEN Parsed(CallExprAST(IdName, Append(Args, Arg.ast)),
                        getNextToken(Arg.G))
        ELSE IF Arg.G.CurTok = Ord(",")
            THEN ParseCallArgs(b, IdName, Append(Args, Arg.ast),
                               getNextToken(Arg.G))
        ELSE Failed(LogError(Arg.G, "Expected ')' or ',' in argument list")))

ParseIdentifierOrCallExpr(b, G) ==
    Bind(getNextToken(G), LAMBDA G1 :
        IF G1.CurTok = Ord("(")
        THEN ParseCallArgs(b, G.IdentifierStr, <<>>, getNextToken(G1))
        ELSE Parsed(VariableExprAST(G.IdentifierStr), G1))

ParsePrimary(b, G) ==
    CASE G.CurTok = tok_identifier -> ParseIdentifierOrCallExpr(b, G)
      [] G.CurTok = tok_number -> ParseNumberExpr(b, G)
      [] G.CurTok = Ord("(") -> ParseParenExpr(b, G)
      [] OTHER -> Failed(LogError(G, "Unknown token when expecting an expression"))

\* the build with lowering, lines 389-419
ParseBinOpRHS(ExprPrec, LHS, G) ==
    IF GetTokPrecedence(G) < ExprPrec THEN Parsed(LHS, G)
    ELSE Bind(ParsePrimary("codegen", getNextToken(G)), LAMBDA RHS :
        IF ~RHS.ok THEN Failed(RHS.G)
        ELSE IF GetTokPrecedence(G) < GetTokPrecedence(RHS.G) THEN
            Bind(ParseBinOpRHS(GetTokPrecedence(G) + 1, RHS.ast, RHS.G),
                 LAMBDA RHS2 :
                    IF ~RHS2.ok THEN Failed(RHS2.G)
                    ELSE ParseBinOpRHS(ExprPrec,
                                       BinaryExprAST(G.CurTok, LHS, RHS2.ast),
                                       RHS2.G))
        ELSE ParseBinOpRHS(ExprPrec, BinaryExprAST(G.CurTok, LHS, RHS.ast),
                           RHS.G))

\* the parser-only build, lines 842-874: the fold of LHS and RHS sits in the
\* else of the lookahead test
ParseBinOpRHS_ParserOnly(ExprPrec, LHS, G) ==
    IF GetTokPrecedence(G) < ExprPrec THEN Parsed(LHS, G)
    ELSE Bind(ParsePrimary("parser", getNextToken(G)), LAMBDA RHS :
        IF ~RHS.ok THEN Failed(RHS.G)
        ELSE IF GetTokPrecedence(G) < GetTokPrecedence(RHS.G) THEN
            Bind(ParseBinOpRHS_ParserOnly(GetTokPrecedence(G) + 1, RHS.ast, RHS.G),
                 LAMBDA RHS2 :
                    IF ~RHS2.ok THEN Failed(RHS2.G)
                    ELSE ParseBinOpRHS_ParserOnly(ExprPrec, LHS, RHS2.G))
        ELSE ParseBinOpRHS_ParserOnly(ExprPrec,
                                      BinaryExprAST(G.CurTok, LHS, RHS.ast),
                                      RHS.G))

ParseExpression(b, G) ==
    Bind(ParsePrimary(b, G), LAMBDA LHS :
        IF ~LHS.ok THEN Failed(LHS.G)
        ELSE IF b = "parser" THEN ParseBinOpRHS_ParserOnly(0, LHS.ast, LHS.G)
        ELSE ParseBinOpRHS(0, LHS.ast, LHS.G))

\* the while (getNextToken() == tok_identifier) loop of ParsePrototype
RECURSIVE ParseArgNames(_, _)
ParseArgNames(ArgNames, G) ==
    Bind(getNextToken(G), LAMBDA G1 :
        IF G1.CurTok = tok_identifier
        THEN ParseArgNames(Append(ArgNames, G1.IdentifierStr), G1)
        ELSE [ArgNames |-> ArgNames, G |-> G1])

ParsePrototype(G) ==
    IF G.CurTok # tok_identifier
    THEN Failed(LogError(G, "Expected function name in prototyp"))
    ELSE Bind(getNextToken(G), LAMBDA G1 :
        IF G1.CurTok # Ord("(")
        THEN Failed(LogError(G1, "Expected '(' in prototype"))
        ELSE Bind(ParseArgNames(<<>>, G1), LAMBDA a :
            IF a.G.CurTok # Ord(")")
            THEN Failed(LogError(a.G, "Expected ')' in prototype"))
            ELSE Parsed(PrototypeAST(G.IdentifierStr, a.ArgNames),
                        getNextToken(a.G))))

ParseDefinition(b, G) ==
    Bind(ParsePrototype(getNextToken(G)), LAMBDA Proto :
        IF ~Proto.ok THEN Failed(Proto.G)
        ELSE Bind(ParseExpression(b, Proto.G), LAMBDA E :
            IF E.ok THEN Parsed(FunctionAST(Proto.ast, E.ast), E.G)
            ELSE Failed(E.G)))

ParseExtern(G) == ParsePrototype(getNextToken(G))

ParseTopLevelExpr(b, G) ==
    Bind(ParseExpression(b, G), LAMBDA E :
        IF E.ok THEN Parsed(FunctionAST(PrototypeAST(<<>>, <<>>), E.ast), E.G)
        ELSE Failed(E.G))

-----------------------------------------------------------------------------
(* The LLVM module.  A module is its function list and the counter of its  *)
(* symbol table; a function is [id, name, args, body], body = <<>> for a   *)
(* declaration (Function::empty()).  A null unique_ptr is a module that is *)
(* not present.                                                            *)

RECURSIVE Decimal(_)
Decimal(n) == IF n < 10 THEN <<48 + n>> ELSE Decimal(n \div 10) \o <<48 + (n % 10)>>

\* Module::getFunction: the position of the function named Name, 0 for
\* nullptr; a function with the empty name is not in the symbol table
getFunction(M, Name) ==
    IF Name # <<>> /\ \E i \in 1..Len(M.funcs) : M.funcs[i].name = Name
    THEN CHOOSE i \in 1..Len(M.funcs) : M.funcs[i].name = Name
    ELSE 0

\* ValueSymbolTable::makeUniqueName for a name already taken: append the
\* next number (after a dot, for a global) until the name is free
RECURSIVE makeUniqueName(_, _, _, _)
makeUniqueName(taken, Base, dot, LastUnique) ==
    LET n == LastUnique + 1
        UniqueName == Base \o dot \o Decimal(n)
    IN  IF UniqueName \in taken
        THEN makeUniqueName(taken, Base, dot, n)
        ELSE [name |-> UniqueName, LastUnique |-> n]

\* Arg.setName(Args[Idx++]) over the arguments of a new function
RECURSIVE SetArgNames(_, _, _, _)
SetArgNames(Args, i, names, LastUnique) ==
    IF i > Len(Args) THEN names
    ELSE IF \E j \in 1..Len(names) : names[j] = Args[i]
    THEN LET u == makeUniqueName({names[j] : j \in 1..Len(names)}, Args[i],
                                 <<>>, LastUnique)
         IN  SetArgNames(Args, i + 1, Append(names, u.name), u.LastUnique)
    ELSE SetArgNames(Args, i + 1, Append(names, Args[i]), LastUnique)

\* PrototypeAST::codegen: Function::Create in TheModule.get().  No lookup
\* comes first; a taken name is made unique by the symbol table, and with
\* a null module the function is created outside any module.
PrototypeCodegen(Proto, M, id) ==
    LET args == SetArgNames(Proto.Args, 1, <<>>, 0)
        taken == {M.funcs[i].name : i \in 1..Len(M.funcs)}
        u == IF Proto.Name # <<>> /\ Proto.Name \in taken
             THEN makeUniqueName(taken, Proto.Name, <<Ord(".")>>, M.LastUnique)
             ELSE [name |-> Proto.Name, LastUnique |-> M.LastUnique]
        F == [id |-> id, name |-> IF M.present THEN u.name ELSE Proto.Name,
              args |-> args, body |-> <<>>]
    IN  [F |-> F,
         M |-> IF M.present
               THEN [M EXCEPT !.funcs = Append(@, F), !.LastUnique = u.LastUnique]
               ELSE M,
         nextFn |-> id + 1]

\* Function::eraseFromParent
eraseFromParent(M, id) ==
    [M EXCEPT !.funcs = SelectSeq(@, LAMBDA F : F.id # id)]

-----------------------------------------------------------------------------
(* Lowering.  An expression's codegen returns [ok, C]: ok is FALSE for the *)
(* null Value, and C = [NV, errs, ub] is NamedValues and stderr as the     *)
(* call leaves them; ub is set once TheModule-> was evaluated on a null    *)
(* TheModule, after which nothing is known of the run.                     *)

\* NamedValues[Name] = V; V = 0 is the null Value
SetValue(NV, Name, V) ==
    [n \in (DOMAIN NV) \cup {Name} |-> IF n = Name THEN V ELSE NV[n]]

\* VariableExprAST::codegen; operator[] inserts a null entry for a name
\* that is not there
VariableCodegen(e, C) ==
    IF e.Name \in DOMAIN C.NV /\ C.NV[e.Name] # 0
    THEN [ok |-> TRUE, C |-> C]
    ELSE [ok |-> FALSE,
          C |-> [C EXCEPT !.NV = SetValue(@, e.Name, 0),
                          !.errs = Append(@, "Unknown variable name")]]

RECURSIVE ExprCodegen(_, _, _)
RECURSIVE ArgsCodegen(_, _, _, _)

\* the loop over Args of CallExprAST::codegen
ArgsCodegen(Args, i, M, C) ==
    IF i > Len(Args) THEN [ok |-> TRUE, C |-> C]
    ELSE Bind(ExprCodegen(Args[i], M, C), LAMBDA a :
            IF a.C.ub \/ ~a.ok THEN [ok |-> FALSE, C |-> a.C]
            ELSE ArgsCodegen(Args, i + 1, M, a.C))

ExprCodegen(e, M, C) ==
    CASE e.kind = "Number" -> [ok |-> TRUE, C |-> C]
      [] e.kind = "Variable" -> VariableCodegen(e, C)
      [] e.kind = "Binary" ->
            Bind(ExprCodegen(e.LHS, M, C), LAMBDA L :
                IF L.C.ub THEN [ok |-> FALSE, C |-> L.C]
                ELSE Bind(ExprCodegen(e.RHS, M, L.C), LAMBDA R :
                    IF R.C.ub \/ ~L.ok \/ ~R.ok THEN [ok |-> FALSE, C |-> R.C]
                    ELSE IF e.Op \in {Ord("+"), Ord("-"), Ord("*"), Ord("<")}
                    THEN [ok |-> TRUE, C |-> R.C]
                    ELSE [ok |-> FALSE,
                          C |-> [R.C EXCEPT !.errs =
                                    Append(@, "invalid binary operator")]]))
      [] e.kind = "Call" ->
            IF ~M.present THEN [ok |-> FALSE, C |-> [C EXCEPT !.ub = TRUE]]
            ELSE
                LET CalleeF == getFunction(M, e.Callee)
                IN  IF CalleeF = 0
                    THEN [ok |-> FALSE,
                          C |-> [C EXCEPT !.errs =
                                     Append(@, "Unknown function referenced")]]
                    ELSE IF Len(M.funcs[CalleeF].args) # Len(e.Args)
                    THEN [ok |-> FALSE,
                          C |-> [C EXCEPT !.errs =
                                     Append(@, "Incorrect # of arguments")]]
                    ELSE ArgsCodegen(e.Args, 1, M, C)

\* NamedValues.clear(); NamedValues[Arg.getName()] = &Arg for every argument
ArgValues(args) ==
    [n \in {args[i] : i \in 1..Len(args)} |->
        CHOOSE i \in 1..Len(args) : args[i] = n]

\* Builder.CreateRet(RetVal): the function id of M now has the body Body
CreateRet(M, id, Body) ==
    [M EXCEPT !.funcs = [i \in DOMAIN @ |->
                            IF @[i].id = id THEN [@[i] EXCEPT !.body = <<Body>>]
                            ELSE @[i]]]

\* TheModule->getFunction(Proto->getName()), and Proto->codegen() if it is nullptr
TheFunctionOf(Proto, M, id) ==
    IF getFunction(M, Proto.Name) = 0 THEN PrototypeCodegen(Proto, M, id)
    ELSE [F |-> M.funcs[getFunction(M, Proto.Name)], M |-> M, nextFn |-> id]

\* FunctionAST::codegen returns [fn, M, C, nextFn]: fn is the id of the
\* function returned, 0 for nullptr
FunctionCodegen(Fn, M, C, id) ==
    IF ~M.present
    THEN [fn |-> 0, M |-> M, C |-> [C EXCEPT !.ub = TRUE], nextFn |-> id]
    ELSE Bind(TheFunctionOf(Fn.Proto, M, id), LAMBDA t :
        IF t.F.body # <<>>
        THEN [fn |-> 0, M |-> t.M,
              C |-> [C EXCEPT !.errs = Append(@, "Function cannot be redefined")],
              nextFn |-> t.nextFn]
        ELSE Bind(ExprCodegen(Fn.Body, t.M, [C EXCEPT !.NV = ArgValues(t.F.args)]),
                  LAMBDA RetVal :
            IF RetVal.C.ub
            THEN [fn |-> 0, M |-> t.M, C |-> RetVal.C, nextFn |-> t.nextFn]
            ELSE IF RetVal.ok
            THEN [fn |-> t.F.id, M |-> CreateRet(t.M, t.F.id, Fn.Body),
                  C |-> RetVal.C, nextFn |-> t.nextFn]
            ELSE [fn |-> 0, M |-> eraseFromParent(t.M, t.F.id),
                  C |-> RetVal.C, nextFn |-> t.nextFn]))

-----------------------------------------------------------------------------
(* State of the program before main() runs, and the priming of the first   *)
(* token.                                                                  *)

NullModule == [present |-> FALSE, funcs |-> <<>>, LastUnique |-> 0]
EmptyModule == [present |-> TRUE, funcs |-> <<>>, LastUnique |-> 0]
\* nothing handled yet; a handled unit is recorded as: its kind, whether it
\* parsed and was lowered, whether its lowering was undefined, the unit
\* parsed, TheModule before and after, the functions defined before it, the
\* globals where the parse stopped, the lines it wrote and what it asked of
\* the JIT
NoUnit ==
    [kind |-> "none", parsed |-> FALSE, lowered |-> FALSE, ub |-> FALSE,
     unit |-> <<>>, before |-> NullModule, after |-> NullModule,
     defined |-> <<>>, stop |-> <<>>, out |-> <<>>, requests |-> <<>>]

\* no stream has been given to the lexer harness
NoLex == [plain |-> <<>>, at |-> 0, comment |-> <<>>, toks |-> <<>>]

SetGlobals(G) ==
    /\ pos' = G.pos
    /\ LastChar' = G.LastChar
    /\ IdentifierStr' = G.IdentifierStr
    /\ NumVal' = G.NumVal
    /\ CurTok' = G.CurTok
    /\ calls' = G.calls
    /\ errs' = G.errs

InitProgram ==
    /\ pos = 0
    /\ LastChar = Ord(" ")
    /\ IdentifierStr = <<>>
    /\ NumVal = [m |-> 0, e |-> 0]
    /\ CurTok = 0
    /\ calls = 0
    /\ errs = <<>>
    /\ TheModule = NullModule
    /\ TheJIT = <<>>
    /\ NamedValues = <<>>
    /\ nextFn = 1
    /\ backend = <<>>
    /\ anonNames = <<>>
    /\ defs = <<>>
    /\ last = NoUnit
    /\ pc = "start"
    /\ res = <<>>

backendVars == <<TheModule, TheJIT, NamedValues, nextFn, backend, anonNames,
                 defs, last>>
harnessVars == <<exprOps, exprOpnds, res, callPrefix, callArgs, lex>>

-----------------------------------------------------------------------------
(* The parser harness: inputs primary (OP primary)*, and the parse         *)
(* functions applied to them in both builds.                               *)

Builds == {"codegen", "parser"}
BinOps == {Ord("<"), Ord(">"), Ord("+"), Ord("-"), Ord("*"), Ord("/")}
Shapes == {"number", "ident", "paren", "call", "call0"}

Num(d) == NumberExprAST([m |-> d, e |-> 0])

\* the i-th primary of a generated input: its text and the node it denotes
Operand(i, shape) ==
    CASE shape = "number" ->
            [shape |-> shape, text |-> <<48 + i>>, ast |-> Num(i)]
      [] shape = "ident" ->
            [shape |-> shape, text |-> Str(<<"x">>),
             ast |-> VariableExprAST(Str(<<"x">>))]
      [] shape = "paren" ->
            [shape |-> shape, text |-> Str(<<"(", "8", "-", "9", ")">>),
             ast |-> BinaryExprAST(Ord("-"), Num(8), Num(9))]
      [] shape = "call" ->
            [shape |-> shape, text |-> Str(<<"f", "(", "8", ",", "9", ")">>),
             ast |-> CallExprAST(Str(<<"f">>), <<Num(8), Num(9)>>)]
      [] shape = "call0" ->
            [shape |-> shape, text |-> Str(<<"f", "(", ")">>),
             ast |-> CallExprAST(Str(<<"f">>), <<>>)]

RECURSIVE ExprText(_, _, _)
ExprText(opnds, os, i) ==
    IF i > Len(opnds) THEN <<>>
    ELSE (IF i > 1 THEN <<os[i - 1]>> ELSE <<>>) \o opnds[i].text
         \o ExprText(opnds, os, i + 1)

InitParse ==
    /\ InitProgram
    /\ \E n \in 0..MaxOps : \E os \in [1..n -> BinOps] :
       \E k \in 0..(n + 1) : \E sh \in Shapes :
          /\ exprOps = os
          /\ exprOpnds = [i \in 1..(n + 1) |->
                            Operand(i, IF i = k THEN sh ELSE "number")]
          /\ input = ExprText(exprOpnds, exprOps, 1)
    /\ callPrefix = <<>>
    /\ callArgs = <<>>
    /\ lex = NoLex

\* main, line 588 (line 1001 in the parser-only build): prime the first token
Prime ==
    /\ pc = "start"
    /\ SetGlobals(getNextToken(Globals))
    /\ pc' = "primed"
    /\ UNCHANGED <<input, backendVars, harnessVars>>

RunParseExpression(b) ==
    /\ pc = "primed"
    /\ LET r == ParseExpression(b, Globals)
       IN  /\ res' = <<[fn |-> "ParseExpression", b |-> b, r |-> r]>>
           /\ SetGlobals(r.G)
    /\ pc' = "parsed"
    /\ UNCHANGED <<input, backendVars, exprOps, exprOpnds, callPrefix, callArgs, lex>>

RunParseIdentifierOrCallExpr(b) ==
    /\ pc = "primed"
    /\ CurTok = tok_identifier
    /\ LET r == ParseIdentifierOrCallExpr(b, Globals)
       IN  /\ res' = <<[fn |-> "ParseIdentifierOrCallExpr", b |-> b, r |-> r]>>
           /\ SetGlobals(r.G)
    /\ pc' = "parsed"
    /\ UNCHANGED <<input, backendVars, exprOps, exprOpnds, callPrefix, callArgs, lex>>

\* codegen() called on the tree ParseExpression returned in the build with
\* lowering, in a module with no function and with no named value
RunExprCodegen ==
    /\ pc = "parsed"
    /\ res[1].fn = "ParseExpression" /\ res[1].b = "codegen" /\ res[1].r.ok
    /\ LET V == ExprCodegen(res[1].r.ast, EmptyModule,
                            [NV |-> <<>>, errs |-> errs, ub |-> FALSE])
       IN  /\ res' = <<[fn |-> "codegen", b |-> "codegen", r |-> V]>>
           /\ errs' = V.C.errs
    /\ pc' = "lowered"
    /\ UNCHANGED <<input, pos, LastChar, IdentifierStr, NumVal, CurTok, calls,
                   backendVars, exprOps, exprOpnds, callPrefix, callArgs, lex>>

NextParse ==
    \/ Prime
    \/ \E b \in Builds : RunParseExpression(b)
    \/ \E b \in Builds : RunParseIdentifierOrCallExpr(b)
    \/ RunExprCodegen

SpecParse == InitParse /\ [][NextParse]_vars

-----------------------------------------------------------------------------
(* The call harness: inputs  prefix f( t1 t2 ...  with the tokens ti drawn *)
(* freely, and the parse functions applied to them in both builds.         *)

\* the tokens an argument list is drawn from, as their codes
ArgTokens == {Ord("1"), Ord("x"), Ord(","), Ord(")"), Ord("+")}

\* what may stand before the call: nothing, an operator, a parenthesis, the
\* head of a definition
CallPrefixes ==
    { <<>>,
      Str(<<"2", "*">>),
      Str(<<"(">>),
      Str(<<"d", "e", "f", " ", "g", "(", "a", ")", " ">>),
      Str(<<"d", "e", "f", " ", "g", "(", "a", ")", " ", "2", "+">>) }

\* the text of a token sequence, a blank after every token
RECURSIVE TokensText(_, _)
TokensText(ts, i) ==
    IF i > Len(ts) THEN <<>> ELSE <<ts[i], Ord(" ")>> \o TokensText(ts, i + 1)

InitCall ==
    /\ InitProgram
    /\ exprOps = <<>>
    /\ exprOpnds = <<>>
    /\ lex = NoLex
    /\ callPrefix \in CallPrefixes
    /\ \E n \in 0..MaxArgTokens : callArgs \in [1..n -> ArgTokens]
    /\ input = callPrefix \o Str(<<"f", "(">>) \o TokensText(callArgs, 1)

\* the top-level unit parse MainLoop's switch selects, called directly
RunParseUnit(b) ==
    /\ pc = "primed"
    /\ LET r == IF CurTok = tok_def THEN ParseDefinition(b, Globals)
                ELSE ParseTopLevelExpr(b, Globals)
       IN  /\ res' = <<[fn |-> "ParseUnit", b |-> b, r |-> r]>>
           /\ SetGlobals(r.G)
    /\ pc' = "parsed"
    /\ UNCHANGED <<input, backendVars, exprOps, exprOpnds, callPrefix, callArgs, lex>>

NextCall ==
    \/ Prime
    \/ \E b \in Builds : RunParseIdentifierOrCallExpr(b)
    \/ \E b \in Builds : RunParseUnit(b)

SpecCall == InitCall /\ [][NextCall]_vars

-----------------------------------------------------------------------------
(* The lexer harness: a character stream without comments, the same stream *)
(* with one comment put in, and gettok called on the latter until it has   *)
(* returned tok_eof twice.                                                 *)

\* the pieces cs[i], cs[i+1], ... as one stream
RECURSIVE Concat(_, _)
Concat(cs, i) == IF i > Len(cs) THEN <<>> ELSE cs[i] \o Concat(cs, i + 1)

LexPieces ==
    { Str(<<"x">>), Str(<<"1">>), Str(<<" ">>), Str(<<"+">>), Str(<<"(">>),
      Str(<<".">>), Str(<<"\n">>) }

CommentBodies == { <<>>, Str(<<"c", " ", "1">>), Str(<<"#", "x">>) }
EndOfLine == { 10, 13 }

\* what gettok hands back: the token, with IdentifierStr or NumVal if the
\* token fills them in
Token(r) ==
    [tok |-> r.tok,
     id |-> IF r.tok = tok_identifier THEN r.G.IdentifierStr ELSE <<>>,
     num |-> IF r.tok = tok_number THEN r.G.NumVal ELSE [m |-> 0, e |-> 0]]

\* the tokens gettok returns from G on, up to the first tok_eof
RECURSIVE TokensFrom(_)
TokensFrom(G) ==
    Bind(gettok(G), LAMBDA r :
        IF r.tok = tok_eof THEN <<Token(r)>>
        ELSE <<Token(r)>> \o TokensFrom(r.G))

\* the tokens of a whole character stream
Tokens(stream) ==
    TokensFrom([pos |-> 0, LastChar |-> Ord(" "), IdentifierStr |-> <<>>,
                NumVal |-> [m |-> 0, e |-> 0], CurTok |-> 0, calls |-> 0,
                errs |-> <<>>, stdin |-> stream])

\* text t put into stream s after its first k characters
Insert(s, k, t) == SubSeq(s, 1, k) \o t \o SubSeq(s, k + 1, Len(s))

\* k is a token boundary of s: a blank put there changes no token
TokenBoundary(s, k) == Tokens(Insert(s, k, <<Ord(" ")>>)) = Tokens(s)

\* the comments put into a stream at k: closed by an end-of-line anywhere,
\* running to the end of input at the end of the stream
CommentsAt(s, k) ==
    { <<Ord("#")>> \o body \o <<eol>> : body \in CommentBodies, eol \in EndOfLine }
        \cup (IF k = Len(s)
               THEN { <<Ord("#")>> \o body : body \in CommentBodies }
               ELSE {})

InitLex ==
    /\ InitProgram
    /\ exprOps = <<>>
    /\ exprOpnds = <<>>
    /\ callPrefix = <<>>
    /\ callArgs = <<>>
    /\ \E n \in 0..MaxLexPieces : \E ps \in [1..n -> LexPieces] :
       \E k \in 0..Len(Concat(ps, 1)) :
          /\ TokenBoundary(Concat(ps, 1), k)
          /\ \E c \in CommentsAt(Concat(ps, 1), k) :
                /\ input = Insert(Concat(ps, 1), k, c)
                /\ lex = [plain |-> Concat(ps, 1), at |-> k, comment |-> c,
                          toks |-> <<>>]

\* tok_eof has been returned n times
EndReturned(n) ==
    Len(SelectSeq(lex.toks, LAMBDA t : t.tok = tok_eof)) >= n

\* one call of gettok on the stream with the comment
CallGettok ==
    /\ pc = "start"
    /\ ~EndReturned(2)
    /\ Bind(gettok(Globals), LAMBDA r :
          /\ SetGlobals([r.G EXCEPT !.CurTok = CurTok, !.calls = @ + 1])
          /\ lex' = [lex EXCEPT !.toks = Append(@, Token(r))])
    /\ UNCHANGED <<input, backendVars, exprOps, exprOpnds, res, callPrefix,
                   callArgs, pc>>

NextLex == CallGettok

SpecLex == InitLex /\ [][NextLex]_vars

-----------------------------------------------------------------------------
(* The session: main() and MainLoop of the build with lowering, one action *)
(* per case of the switch.  The prompt written before each unit is left    *)
(* out of errs; the lines the handlers write are kept.                     *)

Chunks ==
    { Str(<<"d", "e", "f", " ", "f", "(", "a", ")", " ", "a", ";">>),
      Str(<<"d", "e", "f", " ", "f", "(", "x", " ", "y", ")", " ", "x", "+", "y", ";">>),
      Str(<<"d", "e", "f", " ", "g", "(", ")", " ", "f", "(", "2", ")", ";">>),
      Str(<<"d", "e", "f", " ", "f", "(", "a", ")", " ", "b", ";">>),
      Str(<<"e", "x", "t", "e", "r", "n", " ", "f", "(", "a", ")", ";">>),
      Str(<<"e", "x", "t", "e", "r", "n", " ", "f", "(", "a", " ", "b", ")", ";">>),
      Str(<<"f", "(", "1", ")", ";">>),
      Str(<<"1", "+", "2", ";">>),
      Str(<<"d", "e", "f", " ">>),
      Str(<<"e", "x", "t", "e", "r", "n", " ">>),
      Str(<<")">>),
      Str(<<"#", "c", "\n">>) }

Init ==
    /\ InitProgram
    /\ exprOps = <<>>
    /\ exprOpnds = <<>>
    /\ callPrefix = <<>>
    /\ callArgs = <<>>
    /\ lex = NoLex
    /\ \E n \in 0..MaxChunks : \E cs \in [1..n -> Chunks] : input = Concat(cs, 1)

\* what evaluating TheModule-> on a null TheModule can end in: the process
\* is killed, or it goes on in a state nothing is known of
UBOutcomes == {"crashed", "undefined"}

\* KaleidoscopeJIT::addModule(std::unique_ptr<Module>): the JIT keeps the module
addModule(JIT, M) == Append(JIT, M)

\* main, lines 590-591: TheJIT = Create(); InitializeModulePasses()
InitializeModulePasses ==
    /\ pc = "primed"
    /\ TheModule' = EmptyModule
    /\ pc' = "loop"
    /\ UNCHANGED <<input, pos, LastChar, IdentifierStr, NumVal, CurTok, calls,
                   errs, TheJIT, NamedValues, nextFn, backend, anonNames, defs,
                   last, harnessVars>>

\* case tok_eof: return
MainLoopReturn ==
    /\ pc = "loop"
    /\ CurTok = tok_eof
    /\ pc' = "done"
    /\ UNCHANGED <<input, pos, LastChar, IdentifierStr, NumVal, CurTok, calls,
                   errs, backendVars, harnessVars>>

\* the lines written to stderr since the unit began
Out(newErrs) == SubSeq(newErrs, Len(errs) + 1, Len(newErrs))

\* the record of a handled unit
Unit(kind, r, lowered, ub, after, newErrs, requests) ==
    [kind |-> kind, parsed |-> r.ok, lowered |-> lowered, ub |-> ub,
     unit |-> IF r.ok THEN <<r.ast>> ELSE <<>>,
     before |-> TheModule, after |-> after, defined |-> defs,
     stop |-> <<r.G>>, out |-> Out(newErrs), requests |-> requests]

\* case ';': ignore top-level semicolons
SkipSemicolon ==
    /\ pc = "loop"
    /\ CurTok = Ord(";")
    /\ SetGlobals(getNextToken(Globals))
    /\ last' = Unit("semicolon", Parsed(NoAST, Globals), FALSE, FALSE, TheModule,
                    errs, <<>>)
    /\ UNCHANGED <<input, TheModule, TheJIT, NamedValues, nextFn, backend,
                   anonNames, defs, pc, harnessVars>>

\* a handler whose else branch skips nothing
SkipTokenForRecovery_NoSkip(G) == G

\* the else branch of the three handlers: skip token for error recovery
SkipTokenForRecovery(G) == getNextToken(G)

\* the unit a handler failed to parse: one token is skipped, nothing else
ParseFailed(kind, r) ==
    /\ SetGlobals(SkipTokenForRecovery(r.G))
    /\ last' = Unit(kind, r, FALSE, FALSE, TheModule, r.G.errs, <<>>)
    /\ UNCHANGED <<input, TheModule, TheJIT, NamedValues, nextFn, backend,
                   anonNames, defs, pc, harnessVars>>

\* the unit whose lowering evaluated TheModule-> on a null TheModule
Undefined(kind, r, names) ==
    /\ \E o \in UBOutcomes : pc' = o
    /\ SetGlobals(r.G)
    /\ anonNames' = names
    /\ last' = Unit(kind, r, FALSE, TRUE, TheModule, r.G.errs, <<>>)
    /\ UNCHANGED <<input, TheModule, TheJIT, NamedValues, nextFn, backend, defs,
                   harnessVars>>

Lowering(G) == [NV |-> NamedValues, errs |-> G.errs, ub |-> FALSE]

\* stderr after a handler's lowering: the line the handler writes when the
\* function returned is not nullptr
Report(FnIR, line) == IF FnIR.fn # 0 THEN Append(FnIR.C.errs, line) ELSE FnIR.C.errs

\* the function id of module M, as a one-element sequence
FunctionById(M, id) == SelectSeq(M.funcs, LAMBDA F : F.id = id)

\* if (auto *FnIR = FnAST->codegen()) of HandleDefinition
DefinitionLowered(FnAST, FnIR) ==
    IF FnIR.C.ub THEN Undefined("def", FnAST, anonNames)
    ELSE
        /\ SetGlobals([FnAST.G EXCEPT !.errs =
                          Report(FnIR, "Read function definition:")])
        /\ TheModule' = FnIR.M
        /\ NamedValues' = FnIR.C.NV
        /\ nextFn' = FnIR.nextFn
        /\ defs' = defs \o FunctionById(FnIR.M, FnIR.fn)
        /\ last' = Unit("def", FnAST, FnIR.fn # 0, FALSE, FnIR.M,
                        Report(FnIR, "Read function definition:"), <<>>)
        /\ UNCHANGED <<input, TheJIT, backend, anonNames, pc, harnessVars>>

DefinitionParsed(FnAST) ==
    IF ~FnAST.ok THEN ParseFailed("def", FnAST)
    ELSE DefinitionLowered(FnAST,
            FunctionCodegen(FnAST.ast, TheModule, Lowering(FnAST.G), nextFn))

HandleDefinition ==
    /\ pc = "loop"
    /\ CurTok = tok_def
    /\ DefinitionParsed(ParseDefinition("codegen", Globals))

\* if (auto *FnIR = ProtoAST->codegen()) of HandleExtern: never nullptr
ExternLowered(ProtoAST, FnIR) ==
    /\ SetGlobals([ProtoAST.G EXCEPT !.errs = Append(@, "Read extern: ")])
    /\ TheModule' = FnIR.M
    /\ nextFn' = FnIR.nextFn
    /\ last' = Unit("extern", ProtoAST, TRUE, FALSE, FnIR.M,
                    Append(ProtoAST.G.errs, "Read extern: "), <<>>)
    /\ UNCHANGED <<input, TheJIT, NamedValues, backend, anonNames, defs, pc,
                   harnessVars>>

ExternParsed(ProtoAST) ==
    IF ~ProtoAST.ok THEN ParseFailed("extern", ProtoAST)
    ELSE ExternLowered(ProtoAST, PrototypeCodegen(ProtoAST.ast, TheModule, nextFn))

HandleExtern ==
    /\ pc = "loop"
    /\ CurTok = tok_extern
    /\ ExternParsed(ParseExtern(Globals))

\* what HandleTopLevelExpression asks of the JIT and of the function once
\* the anonymous function is lowered
Requests(fn) ==
    IF fn # 0
    THEN <<[op |-> "addModule", fn |-> fn], [op |-> "eraseFromParent", fn |-> fn]>>
    ELSE <<>>

\* if (auto *FnIR = FnAST->codegen()) of HandleTopLevelExpression
TopLevelLowered(FnAST, FnIR) ==
    IF FnIR.C.ub
    THEN Undefined("expr", FnAST, Append(anonNames, FnAST.ast.Proto.Name))
    ELSE
        /\ SetGlobals([FnAST.G EXCEPT !.errs =
                          Report(FnIR, "Read top-level expression: ")])
        \* addModule(std::move(TheModule)) leaves TheModule null; the
        \* anonymous function is then erased from the module it is in
        /\ TheModule' = IF FnIR.fn # 0 THEN NullModule ELSE FnIR.M
        /\ TheJIT' = IF FnIR.fn # 0
                     THEN addModule(TheJIT, eraseFromParent(FnIR.M, FnIR.fn))
                     ELSE TheJIT
        /\ backend' = backend \o Requests(FnIR.fn)
        /\ NamedValues' = FnIR.C.NV
        /\ nextFn' = FnIR.nextFn
        /\ anonNames' = Append(anonNames, FnAST.ast.Proto.Name)
        /\ last' = Unit("expr", FnAST, FnIR.fn # 0, FALSE,
                        IF FnIR.fn # 0 THEN NullModule ELSE FnIR.M,
                        Report(FnIR, "Read top-level expression: "),
                        Requests(FnIR.fn))
        /\ UNCHANGED <<input, defs, pc, harnessVars>>

TopLevelParsed(FnAST) ==
    IF ~FnAST.ok THEN ParseFailed("expr", FnAST)
    ELSE TopLevelLowered(FnAST,
            FunctionCodegen(FnAST.ast, TheModule, Lowering(FnAST.G), nextFn))

HandleTopLevelExpression ==
    /\ pc = "loop"
    /\ CurTok \notin {tok_eof, Ord(";"), tok_def, tok_extern}
    /\ TopLevelParsed(ParseTopLevelExpr("codegen", Globals))

\* main, line 595: TheModule->print(errs(), nullptr)
PrintModule ==
    /\ pc = "done"
    /\ IF TheModule.present THEN pc' = "exit" ELSE \E o \in UBOutcomes : pc' = o
    /\ UNCHANGED <<input, pos, LastChar, IdentifierStr, NumVal, CurTok, calls,
                   errs, backendVars, harnessVars>>

Next ==
    \/ Prime
    \/ InitializeModulePasses
    \/ MainLoopReturn
    \/ SkipSemicolon
    \/ HandleDefinition
    \/ HandleExtern
    \/ HandleTopLevelExpression
    \/ PrintModule

Spec == Init /\ [][Next]_vars

-----------------------------------------------------------------------------
(* C1 *)

\* the precedences the grouping is stated with
StdPrec(op) ==
    CASE op \in {Ord("<"), Ord(">")} -> 10
      [] op \in {Ord("+"), Ord("-")} -> 20
      [] op \in {Ord("*"), Ord("/")} -> 40

\* standard grouping of x1 o1 x2 ... on xn: the root is the last of the
\* loosest operators, so equal precedences group to the left
RECURSIVE Grouping(_, _)
Grouping(xs, os) ==
    IF os = <<>> THEN xs[1]
    ELSE
        LET lo == CHOOSE p \in {StdPrec(os[i]) : i \in 1..Len(os)} :
                      \A i \in 1..Len(os) : p <= StdPrec(os[i])
            k == CHOOSE i \in 1..Len(os) :
                      /\ StdPrec(os[i]) = lo
                      /\ \A j \in (i + 1)..Len(os) : StdPrec(os[j]) # lo
        IN  BinaryExprAST(os[k],
                          Grouping(SubSeq(xs, 1, k), SubSeq(os, 1, k - 1)),
                          Grouping(SubSeq(xs, k + 1, Len(xs)),
                                   SubSeq(os, k + 1, Len(os))))

ExpectedTree == Grouping([i \in 1..Len(exprOpnds) |-> exprOpnds[i].ast], exprOps)

\* the generated input has no zero-argument call among its primaries
NoEmptyCall == \A i \in 1..Len(exprOpnds) : exprOpnds[i].shape # "call0"

GroupedBy(b) ==
    (res # <<>> /\ res[1].fn = "ParseExpression" /\ res[1].b = b /\ NoEmptyCall)
        => /\ res[1].r.ok
           /\ res[1].r.ast = ExpectedTree
           /\ CurTok = tok_eof

\* C1: for every input primary (OP primary)*, ParseExpression returns the
\* tree of standard precedence grouping, in the build with lowering and in
\* the parser-only build alike.
C1_PrecedenceGrouping == GroupedBy("codegen") /\ GroupedBy("parser")

\* C1, the build with lowering alone (lines 389-419): the grouping holds.
C1_GroupingInCodegenBuild == GroupedBy("codegen")

C1_Witness ==
    /\ res # <<>> /\ res[1].fn = "ParseExpression" /\ res[1].b = "codegen"
    /\ Len(exprOps) = 3
    /\ StdPrec(exprOps[1]) < StdPrec(exprOps[2])
    /\ StdPrec(exprOps[3]) < StdPrec(exprOps[2])
    /\ res[1].r.ok /\ res[1].r.ast = ExpectedTree

-----------------------------------------------------------------------------
(* C2 *)

\* the token that follows the first primary of the generated input
TokenAfterFirstPrimary == IF exprOps = <<>> THEN tok_eof ELSE exprOps[1]

\* C2: with the lookahead on an identifier followed by '(' and ')',
\* ParseIdentifierOrCallExpr returns a Call node with that callee and no
\* arguments, and leaves the lookahead on the token after ')'.
C2_EmptyCallParses ==
    (/\ res # <<>>
     /\ res[1].fn = "ParseIdentifierOrCallExpr"
     /\ exprOpnds[1].shape = "call0")
        => /\ res[1].r.ok
           /\ res[1].r.ast = CallExprAST(Str(<<"f">>), <<>>)
           /\ CurTok = TokenAfterFirstPrimary

-----------------------------------------------------------------------------
(* C3 *)

Defines(q) == q.op = "addModule"
Executes(q) == q.op \in {"findSymbol", "lookup", "call"}
Evicts(q) == q.op \in {"eraseFromParent", "removeModule"}

\* C3: a bare top-level expression that parses and lowers is, within its
\* handler, defined, executed exactly once and then evicted, in this order.
C3_DefineExecuteEvict ==
    (last.kind = "expr" /\ last.lowered)
        => /\ \E i, j, k \in 1..Len(last.requests) :
                /\ i < j /\ j < k
                /\ Defines(last.requests[i])
                /\ Executes(last.requests[j])
                /\ Evicts(last.requests[k])
           /\ Cardinality({j \in 1..Len(last.requests) :
                              Executes(last.requests[j])}) = 1

-----------------------------------------------------------------------------
(* C4 *)

UnitName == last.unit[1].Proto.Name

\* the functions named n among a sequence of functions
Named(fs, n) == SelectSeq(fs, LAMBDA F : F.name = n)

\* C4: a def of a name that already has a defined body fails with the
\* redefinition error, and the function registered under the name is
\* left as it was defined.
C4_RedefinitionRejected ==
    (last.kind = "def" /\ last.parsed /\ Named(last.defined, UnitName) # <<>>)
        => /\ ~last.ub
           /\ ~last.lowered
           /\ last.out = <<"Function cannot be redefined">>
           /\ Named(last.after.funcs, UnitName) = Named(last.defined, UnitName)

\* C4 in the sessions where TheModule is still present at the second def:
\* the redefinition is rejected and the function is left as it was.
C4_RejectedWhileModulePresent ==
    (last.kind = "def" /\ last.parsed /\ Named(last.defined, UnitName) # <<>>
        /\ last.before.present)
        => /\ ~last.lowered
           /\ last.out = <<"Function cannot be redefined">>
           /\ last.after = last.before
           /\ Named(last.after.funcs, UnitName) = Named(last.defined, UnitName)

-----------------------------------------------------------------------------
(* C5 *)

\* the name n is registered in M as a declaration without a body
DeclaredOnly(M, n) ==
    getFunction(M, n) # 0 /\ M.funcs[getFunction(M, n)].body = <<>>

\* M as it would be had n not been declared
WithoutDeclaration(M, n) ==
    [M EXCEPT !.funcs = SelectSeq(@, LAMBDA F : F.name # n)]

\* the same def lowered in the session without the earlier extern
LowersWithoutExtern ==
    FunctionCodegen(last.unit[1], WithoutDeclaration(last.before, UnitName),
                    [NV |-> <<>>, errs |-> <<>>, ub |-> FALSE], nextFn).fn # 0

\* C5: a def of a name registered only as a declaration succeeds exactly
\* when the same def succeeds without the earlier extern, and then the name
\* has a defined body.
C5_DeclarationUpgraded ==
    (last.kind = "def" /\ last.parsed /\ DeclaredOnly(last.before, UnitName))
        => /\ last.lowered <=> LowersWithoutExtern
           /\ last.lowered =>
                /\ getFunction(last.after, UnitName) # 0
                /\ last.after.funcs[getFunction(last.after, UnitName)].body # <<>>

-----------------------------------------------------------------------------
(* C6 and C7 *)

ExternName == last.unit[1].Name
ExternArgs == last.unit[1].Args

\* C6: an extern of a name already registered with the same parameter list
\* leaves the registered functions of the module as they were.
C6_IdenticalExternIdempotent ==
    (/\ last.kind = "extern" /\ last.parsed
     /\ getFunction(last.before, ExternName) # 0
     /\ last.before.funcs[getFunction(last.before, ExternName)].args = ExternArgs)
        => last.after.funcs = last.before.funcs

IsError(line) ==
    line \notin {"Read extern: ", "Read function definition:",
                 "Read top-level expression: "}

\* C7: an extern of a name already registered with another number of
\* parameters is reported as an error, and the registration keeps its arity.
C7_ConflictingArityIsError ==
    (/\ last.kind = "extern" /\ last.parsed
     /\ getFunction(last.before, ExternName) # 0
     /\ Len(last.before.funcs[getFunction(last.before, ExternName)].args)
            # Len(ExternArgs))
        => /\ \E i \in 1..Len(last.out) : IsError(last.out[i])
           /\ getFunction(last.after, ExternName) # 0
           /\ Len(last.after.funcs[getFunction(last.after, ExternName)].args)
                = Len(last.before.funcs[getFunction(last.before, ExternName)].args)

-----------------------------------------------------------------------------
(* C8 *)

\* C8: any two anonymous units of one session are wrapped under different
\* names (stated on the sessions whose loop is still running).
C8_AnonymousNamesUnique ==
    pc = "loop" =>
        \A i, j \in 1..Len(anonNames) : i # j => anonNames[i] # anonNames[j]

-----------------------------------------------------------------------------
(* C9 *)

\* the parse MainLoop's switch starts on the current lookahead
UnitParse ==
    CASE CurTok = tok_def -> ParseDefinition("codegen", Globals)
      [] CurTok = tok_extern -> ParseExtern(Globals)
      [] OTHER -> ParseTopLevelExpr("codegen", Globals)

\* the step taken from the loop on a unit that fails to parse
FailedUnitStep(r) ==
    (~r.ok) =>
        /\ calls' = r.G.calls + 1
        /\ pos' >= r.G.pos
        /\ CurTok' = gettok(r.G).tok
        /\ errs' = r.G.errs
        /\ TheModule' = TheModule
        /\ TheJIT' = TheJIT
        /\ backend' = backend
        /\ defs' = defs
        /\ pc' = "loop"

\* C9: when the parse of a top-level unit fails, the driver discards exactly
\* one token, the lookahead where the parse stopped, hands nothing to the
\* backend for the unit, and is in the loop again.
C9_FailedParseSkipsOneToken ==
    [][(pc = "loop" /\ CurTok \notin {tok_eof, Ord(";")})
          => Bind(UnitParse, FailedUnitStep)]_vars

\* an extern that failed to parse was skipped past by one token and the loop
\* goes on with input still to read
C9_Witness ==
    /\ last.kind = "extern" /\ ~last.parsed
    /\ calls = last.stop[1].calls + 1
    /\ pc = "loop"
    /\ CurTok # tok_eof

-----------------------------------------------------------------------------
(* C10 *)

\* what is left to lex: the characters not yet read, the character held in
\* LastChar, and the end token not yet returned
Remaining ==
    (Len(input) - pos) + (IF LastChar # EOF THEN 1 ELSE 0)
        + (IF CurTok # tok_eof THEN 1 ELSE 0)

\* an iteration of MainLoop that does not return consumes a token
C10_IterationConsumes ==
    [][(pc = "loop" /\ pc' = "loop")
          => (calls' > calls /\ Remaining' < Remaining /\ Remaining' >= 0)]_vars

\* once gettok has returned tok_eof, it returns tok_eof again
C10_EndTokenSticky ==
    [](CurTok = tok_eof =>
          /\ gettok(Globals).tok = tok_eof
          /\ gettok(gettok(Globals).G).tok = tok_eof)

\* MainLoop is left by its return on the end token and in no other way
C10_LoopLeftAtEndToken ==
    [][pc = "loop" => (pc' = "loop" \/ (pc' = "done" /\ CurTok = tok_eof))]_vars

\* C10: for every finite input the driver loop reaches the end token and
\* returns: every iteration that does not return consumes at least one
\* token of the finitely many left, the end token, once returned, is
\* returned again, and the loop ends in no other way than by its return.
C10_DriverTerminates ==
    /\ C10_LoopLeftAtEndToken
    /\ C10_IterationConsumes
    /\ C10_EndTokenSticky

-----------------------------------------------------------------------------
(* C11 *)

ArgOperands == {Ord("1"), Ord("x")}

\* the argument list the tokens ts spell from position i on: operands
\* joined by '+', arguments separated by ',', closed by ')'.  n is the
\* number of arguments when the list is closed, 0 when it is not one.
RECURSIVE ArgList(_, _, _, _)
ArgList(ts, i, expectOperand, commas) ==
    IF i > Len(ts) THEN 0
    ELSE IF expectOperand
    THEN (IF ts[i] \in ArgOperands THEN ArgList(ts, i + 1, FALSE, commas) ELSE 0)
    ELSE CASE ts[i] = Ord("+") -> ArgList(ts, i + 1, TRUE, commas)
           [] ts[i] = Ord(",") -> ArgList(ts, i + 1, TRUE, commas + 1)
           [] ts[i] = Ord(")") -> commas + 1
           [] OTHER -> 0

ArgCount == ArgList(callArgs, 1, TRUE, 0)

\* the generated call is f() : the case of C2, not of C11
EmptyArgList == callArgs # <<>> /\ callArgs[1] = Ord(")")

\* C11: a call whose argument list has an argument that does not parse, or
\* a token other than ')' or ',' after an argument (a missing ')' too),
\* makes ParseIdentifierOrCallExpr fail with no Call node returned, and the
\* enclosing expression and unit fail with it; a call whose list is closed
\* yields the Call node with all its arguments.
C11_BadArgumentListFails ==
    (res # <<>> /\ res[1].fn \in {"ParseIdentifierOrCallExpr", "ParseUnit"}
        /\ ~EmptyArgList)
        => /\ ArgCount = 0 => (~res[1].r.ok /\ res[1].r.ast = NoAST)
           /\ (ArgCount > 0 /\ res[1].fn = "ParseIdentifierOrCallExpr")
                => /\ res[1].r.ok
                   /\ res[1].r.ast.kind = "Call"
                   /\ Len(res[1].r.ast.Args) = ArgCount

\* a definition whose body is 2 + f(1 x ... : the call stopped after its
\* first argument and the definition failed
C11_Witness ==
    /\ res # <<>> /\ res[1].fn = "ParseUnit"
    /\ Len(callPrefix) > 4
    /\ Len(callArgs) >= 2
    /\ callArgs[1] \in ArgOperands /\ callArgs[2] \in ArgOperands
    /\ ~res[1].r.ok
    /\ errs # <<>>
    /\ errs[Len(errs)] = "Expected ')' or ',' in argument list"

-----------------------------------------------------------------------------
(* C12 *)

\* the characters gettok has not read yet
Rest == SubSeq(input, pos + 1, Len(input))

StartsWith(t, p) == Len(t) >= Len(p) /\ SubSeq(t, 1, Len(p)) = p

\* after the token def: a definition of f whose body is the identifier b,
\* which is not a parameter
FreeVariableDef == Str(<<"f", "(", "a", ")", " ", "b", ";">>)

\* the name has a function with a body in M
DefinedIn(M, n) == getFunction(M, n) # 0 /\ M.funcs[getFunction(M, n)].body # <<>>

\* the step HandleDefinition takes on the definition parsed as r
FreeVariableStep(r) ==
    /\ r.ok
    /\ r.G.errs = errs
    /\ r.ast.Body = VariableExprAST(Str(<<"b">>))
    /\ TheModule.present =>
          /\ defs' = defs
          /\ pc' = "loop"
          /\ ~DefinedIn(TheModule, r.ast.Proto.Name) =>
                /\ errs' = Append(errs, "Unknown variable name")
                /\ ~DefinedIn(TheModule', r.ast.Proto.Name)

\* C12: a definition whose body is an identifier that is not a parameter
\* parses, with nothing reported by the parse; the unknown-variable error
\* is reported when the body is lowered, and no defined function is
\* registered for the definition.
C12_UnknownVariableAtLowering ==
    [][(pc = "loop" /\ CurTok = tok_def /\ StartsWith(Rest, FreeVariableDef))
          => Bind(UnitParse, FreeVariableStep)]_vars

\* C12 for the definitions whose name is not registered yet: parsed,
\* rejected at lowering, not registered.
C12_WithoutEarlierDeclaration ==
    [][(pc = "loop" /\ CurTok = tok_def /\ StartsWith(Rest, FreeVariableDef)
          /\ getFunction(TheModule, Str(<<"f">>)) = 0)
          => Bind(UnitParse, FreeVariableStep)]_vars

\* the definition def f(a) b parsed, its lowering reported the unknown
\* variable, and f is not a defined function
C12_Witness ==
    /\ last.kind = "def" /\ last.parsed /\ ~last.lowered /\ ~last.ub
    /\ last.unit[1].Body = VariableExprAST(Str(<<"b">>))
    /\ last.out = <<"Unknown variable name">>
    /\ ~DefinedIn(TheModule, Str(<<"f">>))

-----------------------------------------------------------------------------
(* C13 *)

\* the i-th token of a stream, tok_eof again after its end
TokenAt(ts, i) == IF i <= Len(ts) THEN ts[i] ELSE ts[Len(ts)]

\* C13: the tokens gettok returns from a stream with a comment put in at a
\* token boundary are the tokens of the stream without the comment, and
\* tok_eof after them; the comment itself gives no token.
C13_CommentElided ==
    lex # NoLex =>
        \A i \in 1..Len(lex.toks) : lex.toks[i] = TokenAt(Tokens(lex.plain), i)

\* a comment between two tokens of a stream, which has been read to its end
C13_Witness ==
    /\ EndReturned(2)
    /\ Len(lex.toks) >= 4
    /\ 0 < lex.at /\ lex.at < Len(lex.plain)
    /\ Len(lex.comment) > 2

\* a comment that runs to the end of input: tok_eof is what follows the
\* tokens before it
C13_WitnessToEndOfInput ==
    /\ EndReturned(1)
    /\ lex.at = Len(lex.plain) /\ lex.at > 0
    /\ lex.comment[Len(lex.comment)] \notin EndOfLine

-----------------------------------------------------------------------------
(* C14 *)

\* the functions of M that have a name
NamedFunctions(M) == SelectSeq(M.funcs, LAMBDA F : F.name # <<>>)

\* C14: between two units TheModule is present and every function the
\* session has defined is in it, and a bare top-level expression leaves in
\* it every named function that was there before.
C14_ModuleKept ==
    pc = "loop" =>
        /\ TheModule.present
        /\ \A i \in 1..Len(defs) : DefinedIn(TheModule, defs[i].name)
        /\ last.kind = "expr" =>
              NamedFunctions(last.after) = NamedFunctions(last.before)

-----------------------------------------------------------------------------
(* C15 *)

\* what M has registered: every function's name, arity and whether it has
\* a body
Registrations(M) ==
    [i \in 1..Len(M.funcs) |->
        [name |-> M.funcs[i].name, arity |-> Len(M.funcs[i].args),
         defined |-> M.funcs[i].body # <<>>]]

\* the last unit was a def that parsed and whose lowering returned nullptr
FailedDef == last.kind = "def" /\ last.parsed /\ ~last.lowered /\ ~last.ub

\* C15: a def whose body fails to lower leaves the registrations of the
\* module as they were: a declaration of the name is still there with its
\* arity, a new name is not registered.
C15_FailedDefLeavesRegistrations ==
    FailedDef => Registrations(last.after) = Registrations(last.before)

\* C15 for the defs whose name was not registered before: the name is not
\* registered afterwards and nothing else has changed.
C15_NewNameNotRegistered ==
    (FailedDef /\ getFunction(last.before, UnitName) = 0)
        => /\ Registrations(last.after) = Registrations(last.before)
           /\ getFunction(last.after, UnitName) = 0

-----------------------------------------------------------------------------
(* C16 *)

\* every primary of the generated input lowers: a number, or a
\* parenthesised difference of numbers
OperandsLower ==
    \A i \in 1..Len(exprOpnds) : exprOpnds[i].shape \in {"number", "paren"}

InvalidOperatorReported ==
    \E i \in 1..Len(errs) : errs[i] = "invalid binary operator"

\* C16: an expression primary (OP primary)* over the operators that have a
\* precedence, whose primaries all lower, is lowered, and 'invalid binary
\* operator' is not reported.
C16_EveryOperatorLowers ==
    (res # <<>> /\ res[1].fn = "codegen" /\ OperandsLower)
        => (res[1].r.ok /\ ~InvalidOperatorReported)

\* C16 for the expressions over + - * < alone: they are lowered.
C16_LoweredOperators ==
    (res # <<>> /\ res[1].fn = "codegen" /\ OperandsLower
        /\ \A i \in 1..Len(exprOps) :
              exprOps[i] \in {Ord("+"), Ord("-"), Ord("*"), Ord("<")})
        => (res[1].r.ok /\ ~InvalidOperatorReported)

====
